---- MODULE Spec2Model ----
(***************************************************************************)
(* Call-log persistence of the voice agent (db.py): save_call_log with its *)
(* schema fallback and transient retry, and the readers fetch_call_logs,   *)
(* fetch_bookings and fetch_stats.                                         *)
(*                                                                         *)
(* Python strings are sequences of one-character strings, so that lower()  *)
(* and the substring test `k in s` are computed, not assumed.  Python's    *)
(* None is the empty tuple <<>> and a present value v is <<v>>.            *)
(***************************************************************************)
EXTENDS Integers, Sequences, FiniteSets, TLC

\* ------------------------------------------------------------------ bounds
\* Largest number of rows a pre-existing call_logs table holds in ReaderSpec.
MaxRows == 3

\* ------------------------------------------------------------ Python values
None == <<>>
Some(v) == <<v>>

UpperCase == <<"A","B","C","D","E","F","G","H","I","J","K","L","M",
               "N","O","P","Q","R","S","T","U","V","W","X","Y","Z">>
LowerCase == <<"a","b","c","d","e","f","g","h","i","j","k","l","m",
               "n","o","p","q","r","s","t","u","v","w","x","y","z">>

\* str.lower() on one character
LowerChar(c) ==
    IF \E i \in 1..26 : UpperCase[i] = c
    THEN LowerCase[CHOOSE i \in 1..26 : UpperCase[i] = c]
    ELSE c

\* str.lower()
Lower(s) == [i \in 1..Len(s) |-> LowerChar(s[i])]

\* Python's `k in s` on strings
Contains(k, s) ==
    \E i \in 0..(Len(s) - Len(k)) : SubSeq(s, i + 1, i + Len(k)) = k

\* ------------------------------------------------------- string constants
sPGRST204     == <<"P","G","R","S","T","2","0","4">>
sSchemaCache  == <<"s","c","h","e","m","a"," ","c","a","c","h","e">>
sSCHEMA_ERROR == <<"S","C","H","E","M","A","_","E","R","R","O","R">>
sColon        == <<":">>
sConfirmed    == <<"C","o","n","f","i","r","m","e","d">>
sUnknown      == <<"u","n","k","n","o","w","n">>
sNotConfigured == <<"S","u","p","a","b","a","s","e"," ","n","o","t"," ",
                    "c","o","n","f","i","g","u","r","e","d">>
sClientFailed == <<"S","u","p","a","b","a","s","e"," ","c","l","i","e","n","t",
                   " ","f","a","i","l","e","d">>
sMaxRetriesExceeded == <<"M","a","x"," ","r","e","t","r","i","e","s"," ",
                         "e","x","c","e","e","d","e","d">>

\* ----------------------------------------------------------------- columns
_ANALYTICS_COLUMNS ==
    {"sentiment", "was_booked", "interrupt_count",
     "estimated_cost_usd", "call_date", "call_hour", "call_day_of_week"}
_BASE_COLUMNS ==
    {"phone_number", "duration_seconds", "transcript", "summary",
     "recording_url", "caller_name"}

\* ------------------------------------------------------------ retry helper
\* Mutant of _RETRY_DELAYS: every delay doubled.
RetryDelays_Doubled == <<2, 4, 8>>

_MAX_RETRIES == 3

_RETRY_DELAYS == <<1, 2, 4>>

TransientKeys ==
    { <<"5","2","5">>, <<"s","s","l">>, <<"t","i","m","e","o","u","t">>,
      <<"c","o","n","n","e","c","t","i","o","n">>,
      <<"n","e","t","w","o","r","k">>,
      <<"5","0","2">>, <<"5","0","3">>, <<"5","0","4">> }

\* _is_retryable(err_str)
_is_retryable(err) == \E k \in TransientKeys : Contains(k, Lower(err))

\* Mutant of _is_schema_error: PGRST204 matched without regard to case.
SchemaError_IgnoreCase(err) ==
    Contains(Lower(sPGRST204), Lower(err)) \/ Contains(sSchemaCache, Lower(err))

\* _is_schema_error(err_str)
_is_schema_error(err) ==
    Contains(sPGRST204, err) \/ Contains(sSchemaCache, Lower(err))


\* ------------------------------------------------------------------- state
VARIABLES
    url,            \* os.environ["SUPABASE_URL"] ("" when unset)
    key,            \* os.environ["SUPABASE_KEY"] ("" when unset)
    migrated,       \* the store's call_logs table has the analytics columns
    rows,           \* the call_logs table, oldest row first
    op,             \* the db.py function being called
    pc,             \* where that call stands
    args,           \* the arguments of save_call_log
    full_data,      \* save_call_log's full payload
    base_data,      \* save_call_log's base-only payload
    attempt,        \* the retry loop's index
    clientsCreated, \* number of create_client calls
    client,         \* get_supabase() returned a client to the call
    ctx,            \* the agent entrypoint's job context and what it did
    limit,          \* fetch_call_logs' limit
    log,            \* every store request made, in order, with the sleep after it
    result          \* what the call returned (or raised)

vars == <<url, key, migrated, rows, op, pc, args, full_data, base_data,
          attempt, clientsCreated, client, ctx, limit, log, result>>

\* -------------------------------------------------------- strings in use
sP    == <<"+","1">>
sT    == <<"h","i">>
sU    == <<"u">>
sN    == <<"n">>
sD    == <<"d">>
sMon  == <<"M","o","n">>
sPos  == <<"p","o","s">>
sNo   == <<"n","o">>
sBookingConfirmed == <<"O","K"," ","C","o","n","f","i","r","m","e","d">>
sLowerConfirmed   == <<"c","o","n","f","i","r","m","e","d">>

\* Error strings str(e) the store client raises.
ePGRST204   == sPGRST204
eCache      == <<"S","c","h","e","m","a"," ","C","a","c","h","e">>
eBoth       == <<"5","0","3"," ">> \o sPGRST204
e503        == <<"5","0","3">>
eSSL        == <<"S","S","L">>
eDuplicate  == <<"d","u","p">>
eLowerPgrst == <<"p","g","r","s","t","2","0","4">>
StoreErrors == {ePGRST204, eCache, eBoth, e503, eSSL, eDuplicate, eLowerPgrst}

\* ------------------------------------------------------------ the store
\* Columns of call_logs: the base columns always, the analytics columns once
\* supabase_migration_v2.sql has run.
StoreColumns(m) == IF m THEN _BASE_COLUMNS \cup _ANALYTICS_COLUMNS ELSE _BASE_COLUMNS

RespOK == [ok |-> TRUE, err |-> <<>>]
RespErr(e) == [ok |-> FALSE, err |-> e]

\* What supabase.table("call_logs").insert(data).execute() can do: raise any
\* error, or accept a payload all of whose columns exist.
InsertResponses(data, m) ==
    {RespErr(e) : e \in StoreErrors}
        \cup (IF DOMAIN data \subseteq StoreColumns(m) THEN {RespOK} ELSE {})

AllColumns == _BASE_COLUMNS \cup _ANALYTICS_COLUMNS

\* The row the table keeps for an inserted payload: a column the payload does
\* not give is NULL.
StoredRow(data) ==
    [c \in AllColumns |-> IF c \in DOMAIN data THEN Some(data[c]) ELSE None]

\* What a select query's execute() can do.
QueryResponses == {RespErr(e) : e \in StoreErrors} \cup {RespOK}

\* ------------------------------------------------------------- results
ZeroStats == [total_calls |-> 0, total_bookings |-> 0, avg_duration |-> 0, booking_rate |-> 0]
NoResult == [kind |-> "none", success |-> FALSE, message |-> <<>>, data |-> <<>>, stats |-> ZeroStats]
\* {"success": True, "data": res.data}
RetSuccess(d) == [NoResult EXCEPT !.kind = "dict", !.success = TRUE, !.data = d]
\* {"success": False, "message": msg}
RetFailure(msg) == [NoResult EXCEPT !.kind = "dict", !.message = msg]
\* an exception leaving the function
Raised(msg) == [NoResult EXCEPT !.kind = "raise", !.message = msg]
RetList(d) == [NoResult EXCEPT !.kind = "list", !.data = d]
RetStats(s) == [NoResult EXCEPT !.kind = "stats", !.stats = s]


\* -------------------------------------------------------- save_call_log
\* Truthiness of an optional string argument (str | None): `if x:`
Truthy(x) == x # None /\ x[1] # <<>>

\* The analytics arguments of save_call_log at their defaults.
DefaultAnalytics ==
    [sentiment |-> sUnknown, estimated_cost_usd |-> None, call_date |-> None,
     call_hour |-> None, call_day_of_week |-> None, was_booked |-> FALSE,
     interrupt_count |-> 0]

\* The analytics arguments a caller passes: the defaults, all populated, and
\* falsy-but-present values (an empty call_date, call_hour 0).
AnalyticsArgs ==
    { DefaultAnalytics,
      [sentiment |-> sPos, estimated_cost_usd |-> Some(1), call_date |-> Some(sD),
       call_hour |-> Some(9), call_day_of_week |-> Some(sMon), was_booked |-> TRUE,
       interrupt_count |-> 2],
      [sentiment |-> sUnknown, estimated_cost_usd |-> None, call_date |-> Some(<<>>),
       call_hour |-> Some(0), call_day_of_week |-> None, was_booked |-> FALSE,
       interrupt_count |-> 0] }

SaveArgs ==
    { [phone |-> sP, duration |-> 10, transcript |-> sT, summary |-> sBookingConfirmed,
       recording_url |-> ru, caller_name |-> cn, analytics |-> an] :
        ru \in {<<>>, sU}, cn \in {<<>>, sN}, an \in AnalyticsArgs }

NoArgs ==
    [phone |-> <<>>, duration |-> 0, transcript |-> <<>>, summary |-> <<>>,
     recording_url |-> <<>>, caller_name |-> <<>>, analytics |-> DefaultAnalytics]

NoData == <<>>

\* Mutant of FullKeys: an analytics argument left at its default is omitted.
FullKeys_OmitDefaults(a) ==
    {"phone_number", "duration_seconds", "transcript", "summary"}
        \cup (IF a.analytics.sentiment # sUnknown THEN {"sentiment"} ELSE {})
        \cup (IF a.analytics.was_booked THEN {"was_booked"} ELSE {})
        \cup (IF a.analytics.interrupt_count # 0 THEN {"interrupt_count"} ELSE {})
        \cup (IF a.recording_url # <<>> THEN {"recording_url"} ELSE {})
        \cup (IF a.caller_name # <<>> THEN {"caller_name"} ELSE {})
        \cup (IF a.analytics.estimated_cost_usd # None THEN {"estimated_cost_usd"} ELSE {})
        \cup (IF Truthy(a.analytics.call_date) THEN {"call_date"} ELSE {})
        \cup (IF a.analytics.call_hour # None THEN {"call_hour"} ELSE {})
        \cup (IF Truthy(a.analytics.call_day_of_week) THEN {"call_day_of_week"} ELSE {})

\* Keys of full_data.
FullKeys(a) ==
    {"phone_number", "duration_seconds", "transcript", "summary",
     "sentiment", "was_booked", "interrupt_count"}
        \cup (IF a.recording_url # <<>> THEN {"recording_url"} ELSE {})
        \cup (IF a.caller_name # <<>> THEN {"caller_name"} ELSE {})
        \cup (IF a.analytics.estimated_cost_usd # None THEN {"estimated_cost_usd"} ELSE {})
        \cup (IF Truthy(a.analytics.call_date) THEN {"call_date"} ELSE {})
        \cup (IF a.analytics.call_hour # None THEN {"call_hour"} ELSE {})
        \cup (IF Truthy(a.analytics.call_day_of_week) THEN {"call_day_of_week"} ELSE {})

FullValue(a, c) ==
    CASE c = "phone_number"       -> a.phone
      [] c = "duration_seconds"   -> a.duration
      [] c = "transcript"         -> a.transcript
      [] c = "summary"            -> a.summary
      [] c = "sentiment"          -> a.analytics.sentiment
      [] c = "was_booked"         -> a.analytics.was_booked
      [] c = "interrupt_count"    -> a.analytics.interrupt_count
      [] c = "recording_url"      -> a.recording_url
      [] c = "caller_name"        -> a.caller_name
      [] c = "estimated_cost_usd" -> a.analytics.estimated_cost_usd[1]
      [] c = "call_date"          -> a.analytics.call_date[1]
      [] c = "call_hour"          -> a.analytics.call_hour[1]
      [] c = "call_day_of_week"   -> a.analytics.call_day_of_week[1]

\* full_data
FullData(a) == [c \in FullKeys(a) |-> FullValue(a, c)]

\* Mutant of BaseData: the analytics columns are not filtered out.
BaseData_KeepsAnalytics(full) == full

\* base_data = {k: v for k, v in full_data.items() if k not in _ANALYTICS_COLUMNS}
BaseData(full) == [c \in (DOMAIN full) \ _ANALYTICS_COLUMNS |-> full[c]]

\* Mutant of Unconfigured: `and` for `or`.
Unconfigured_BothMissing(u, k) == u = <<>> /\ k = <<>>

\* `not url or not key`
Unconfigured(u, k) == u = <<>> \/ k = <<>>

\* Mutants of ShouldRetry: one retry fewer, and a retry after every attempt.
ShouldRetry_OneRetry(err, n) == _is_retryable(err) /\ n < _MAX_RETRIES - 2
ShouldRetry_EveryAttempt(err, n) == _is_retryable(err) /\ n < _MAX_RETRIES

\* `_is_retryable(err) and attempt < _MAX_RETRIES - 1`
ShouldRetry(err, n) == _is_retryable(err) /\ n < _MAX_RETRIES - 1

\* Mutant of TryInsertIteration: the retry test comes before the schema test.
TryInsertIteration_TransientFirst(r, n) ==
    IF r.ok THEN [kind |-> "ok", message |-> <<>>, delay |-> 0]
    ELSE IF _is_retryable(r.err) /\ n < _MAX_RETRIES - 1
         THEN [kind |-> "retry", message |-> r.err, delay |-> _RETRY_DELAYS[n + 1]]
    ELSE IF _is_schema_error(r.err)
         THEN [kind |-> "raise", message |-> sSCHEMA_ERROR \o sColon \o r.err, delay |-> 0]
    ELSE [kind |-> "fail", message |-> r.err, delay |-> 0]

\* Mutant of TryInsertIteration: a failure is reported with a fixed message.
TryInsertIteration_GenericMessage(r, n) ==
    IF r.ok THEN [kind |-> "ok", message |-> <<>>, delay |-> 0]
    ELSE IF _is_schema_error(r.err)
         THEN [kind |-> "raise", message |-> sSCHEMA_ERROR \o sColon \o r.err, delay |-> 0]
    ELSE IF _is_retryable(r.err) /\ n < _MAX_RETRIES - 1
         THEN [kind |-> "retry", message |-> r.err, delay |-> _RETRY_DELAYS[n + 1]]
    ELSE [kind |-> "fail", message |-> sMaxRetriesExceeded, delay |-> 0]

\* Mutant of TryInsertIteration: a successful insert does not end the loop.
TryInsertIteration_NoReturnOnSuccess(r, n) ==
    IF r.ok THEN [kind |-> "retry", message |-> <<>>, delay |-> 0]
    ELSE IF _is_schema_error(r.err)
         THEN [kind |-> "raise", message |-> sSCHEMA_ERROR \o sColon \o r.err, delay |-> 0]
    ELSE IF _is_retryable(r.err) /\ n < _MAX_RETRIES - 1
         THEN [kind |-> "retry", message |-> r.err, delay |-> _RETRY_DELAYS[n + 1]]
    ELSE [kind |-> "fail", message |-> r.err, delay |-> 0]

\* Mutant of TryInsertIteration: the schema-error test is left out.
TryInsertIteration_NoSchemaTest(r, n) ==
    IF r.ok THEN [kind |-> "ok", message |-> <<>>, delay |-> 0]
    ELSE IF _is_retryable(r.err) /\ n < _MAX_RETRIES - 1
         THEN [kind |-> "retry", message |-> r.err, delay |-> _RETRY_DELAYS[n + 1]]
    ELSE [kind |-> "fail", message |-> r.err, delay |-> 0]

\* One iteration of _try_insert's loop on the store's response r at index n:
\*   "ok"     return {"success": True, ...}
\*   "raise"  raise RuntimeError("SCHEMA_ERROR:" + err)
\*   "retry"  time.sleep(delay); continue
\*   "fail"   return {"success": False, "message": err}
TryInsertIteration(r, n) ==
    IF r.ok THEN [kind |-> "ok", message |-> <<>>, delay |-> 0]
    ELSE IF _is_schema_error(r.err)
         THEN [kind |-> "raise", message |-> sSCHEMA_ERROR \o sColon \o r.err, delay |-> 0]
    ELSE IF ShouldRetry(r.err, n)
         THEN [kind |-> "retry", message |-> r.err, delay |-> _RETRY_DELAYS[n + 1]]
    ELSE [kind |-> "fail", message |-> r.err, delay |-> 0]

\* save_call_log's handler of the RuntimeError: `"SCHEMA_ERROR" in err`
IsFallbackSignal(msg) == Contains(sSCHEMA_ERROR, msg)

\* One store request: what was asked ("insert" of the payload labelled "full"
\* or "base-fallback", or a "select"), the response, and the sleep that followed.
LogEntry(kind, label, r, delay) ==
    [kind |-> kind, label |-> label, ok |-> r.ok, err |-> r.err, delay |-> delay]

\* save_call_log up to the first _try_insert: the configuration check,
\* get_supabase() and the two payloads.
SaveCallLog ==
    /\ pc = "idle"
    /\ \E a \in SaveArgs, created \in BOOLEAN :
        /\ op' = "save_call_log"
        /\ args' = a
        /\ client' = (~Unconfigured(url, key) /\ created)
        /\ IF Unconfigured(url, key)
           THEN /\ result' = RetFailure(sNotConfigured)
                /\ pc' = "done"
                /\ created = FALSE
                /\ UNCHANGED <<clientsCreated, full_data, base_data>>
           ELSE /\ clientsCreated' = clientsCreated + 1
                /\ IF ~created
                   THEN /\ result' = RetFailure(sClientFailed)
                        /\ pc' = "done"
                        /\ UNCHANGED <<full_data, base_data>>
                   ELSE /\ full_data' = FullData(a)
                        /\ base_data' = BaseData(FullData(a))
                        /\ pc' = "try_full"
                        /\ UNCHANGED result
    /\ UNCHANGED <<url, key, migrated, rows, attempt, limit, log, ctx>>

\* One iteration of _try_insert(data, label), with what save_call_log does
\* with its outcome.
TryInsert ==
    /\ pc \in {"try_full", "try_base"}
    /\ LET data  == IF pc = "try_full" THEN full_data ELSE base_data
           label == IF pc = "try_full" THEN "full" ELSE "base-fallback"
       IN  IF attempt >= _MAX_RETRIES
           THEN \* the for loop ran out
                /\ result' = RetFailure(sMaxRetriesExceeded)
                /\ pc' = "done"
                /\ UNCHANGED <<rows, attempt, log>>
           ELSE \E r \in InsertResponses(data, migrated) :
                LET o == TryInsertIteration(r, attempt)
                IN  /\ log' = Append(log, LogEntry("insert", label, r, o.delay))
                    /\ rows' = IF r.ok THEN Append(rows, StoredRow(data)) ELSE rows
                    /\ CASE o.kind = "ok" ->
                              /\ result' = RetSuccess(<<data>>)
                              /\ pc' = "done"
                              /\ UNCHANGED attempt
                         [] o.kind = "fail" ->
                              /\ result' = RetFailure(o.message)
                              /\ pc' = "done"
                              /\ UNCHANGED attempt
                         [] o.kind = "retry" ->
                              /\ attempt' = attempt + 1
                              /\ UNCHANGED <<pc, result>>
                         [] o.kind = "raise" ->
                              IF pc = "try_full" /\ IsFallbackSignal(o.message)
                              THEN /\ pc' = "try_base"
                                   /\ attempt' = 0
                                   /\ UNCHANGED result
                              ELSE /\ result' = Raised(o.message)
                                   /\ pc' = "done"
                                   /\ UNCHANGED attempt
    /\ UNCHANGED <<url, key, migrated, op, args, full_data, base_data, clientsCreated,
                   client, ctx, limit>>


\* ----------------------------------------------------------------- readers
\* A reader that sleeps and retries after the last attempt as well.
FetchShouldRetry_EveryAttempt(err, n) == _is_retryable(err) /\ n < _MAX_RETRIES

\* `_is_retryable(str(e)) and attempt < _MAX_RETRIES - 1` of fetch_call_logs
FetchShouldRetry(err, n) == _is_retryable(err) /\ n < _MAX_RETRIES - 1

\* The dict a select gives for row i of table t, projected to cols.
SelectRow(t, i, cols) ==
    [c \in cols |-> IF c \in {"id", "created_at"} THEN Some(i) ELSE t[i][c]]

\* Row numbers of t, newest first: .order("created_at", desc=True)
NewestFirst(t) == [j \in 1..Len(t) |-> Len(t) + 1 - j]

\* The first n elements of a sequence: .limit(n)
Take(q, n) == SubSeq(q, 1, IF Len(q) < n THEN Len(q) ELSE n)

\* select("*").order("created_at", desc=True).limit(n)
RecentLogs(t, n) ==
    LET idx == Take(NewestFirst(t), n)
    IN  [j \in 1..Len(idx) |-> SelectRow(t, idx[j], AllColumns \cup {"id", "created_at"})]

\* The filter .ilike("summary", "%Confirmed%"): case-insensitive, never NULL.
ILikeConfirmed(summary) ==
    summary # None /\ Contains(Lower(sConfirmed), Lower(summary[1]))

RECURSIVE FilterSeq(_, _)
\* The subsequence of index sequence idx whose rows of t are bookings.
FilterSeq(t, idx) ==
    IF idx = <<>> THEN <<>>
    ELSE (IF ILikeConfirmed(t[Head(idx)]["summary"]) THEN <<Head(idx)>> ELSE <<>>)
             \o FilterSeq(t, Tail(idx))

BookingsLimit == 200

\* fetch_bookings' query
BookingRows(t) ==
    LET idx == Take(FilterSeq(t, NewestFirst(t)), BookingsLimit)
    IN  [j \in 1..Len(idx) |->
            SelectRow(t, idx[j], {"id", "phone_number", "summary", "created_at"})]

\* fetch_stats' query: select("duration_seconds, summary")
StatsRows(t) == [i \in 1..Len(t) |-> SelectRow(t, i, {"duration_seconds", "summary"})]

RECURSIVE SumSeq(_)
SumSeq(q) == IF q = <<>> THEN 0 ELSE Head(q) + SumSeq(Tail(q))

\* Python's round(n / d) for n >= 0, d > 0: to the nearest integer, a tie to
\* the even one.  Exact arithmetic; the float (bookings / total) * 100 rounds the
\* same way for every table of fewer than 40 rows.
PyRound(n, d) ==
    LET q == n \div d
        r == n % d
    IN  IF 2 * r < d THEN q
        ELSE IF 2 * r > d THEN q + 1
        ELSE IF q % 2 = 0 THEN q ELSE q + 1

\* `"Confirmed" in r.get("summary", "")`: the key is always in the dict, so
\* the default is never used; on None the test raises TypeError.
SummaryTestRaises(r) == r["summary"] = None
IsBookingRow(r) == Contains(sConfirmed, r["summary"][1])

\* `if r.get("duration_seconds")`
HasDuration(r) == r["duration_seconds"] # None /\ r["duration_seconds"][1] # 0

RECURSIVE Durations(_)
\* durations = [r["duration_seconds"] for r in rows if r.get("duration_seconds")]
Durations(rs) ==
    IF rs = <<>> THEN <<>>
    ELSE (IF HasDuration(Head(rs)) THEN <<Head(rs)["duration_seconds"][1]>> ELSE <<>>)
             \o Durations(Tail(rs))

\* The body of fetch_stats' try block on the query's rows; _empty when the
\* summary test raises.
ComputeStats(rs) ==
    IF \E i \in 1..Len(rs) : SummaryTestRaises(rs[i]) THEN ZeroStats
    ELSE LET total    == Len(rs)
             bookings == Cardinality({i \in 1..Len(rs) : IsBookingRow(rs[i])})
             durs     == Durations(rs)
         IN  [total_calls    |-> total,
              total_bookings |-> bookings,
              avg_duration   |-> IF durs # <<>> THEN PyRound(SumSeq(durs), Len(durs)) ELSE 0,
              booking_rate   |-> IF total # 0 THEN PyRound(bookings * 100, total) ELSE 0]

Limits == {1, 50}

\* fetch_call_logs up to its loop: get_supabase()
FetchCallLogs ==
    /\ pc = "idle"
    /\ \E n \in Limits, created \in BOOLEAN :
        /\ op' = "fetch_call_logs"
        /\ limit' = n
        /\ client' = (~Unconfigured(url, key) /\ created)
        /\ IF Unconfigured(url, key)
           THEN /\ created = FALSE
                /\ result' = RetList(<<>>)
                /\ pc' = "done"
                /\ UNCHANGED clientsCreated
           ELSE /\ clientsCreated' = clientsCreated + 1
                /\ IF created
                   THEN pc' = "fetch_logs" /\ UNCHANGED result
                   ELSE pc' = "done" /\ result' = RetList(<<>>)
    /\ UNCHANGED <<url, key, migrated, rows, args, full_data, base_data, attempt, log, ctx>>

\* One iteration of fetch_call_logs' loop.
FetchCallLogsTry ==
    /\ pc = "fetch_logs"
    /\ IF attempt >= _MAX_RETRIES
       THEN /\ result' = RetList(<<>>)
            /\ pc' = "done"
            /\ UNCHANGED <<attempt, log>>
       ELSE \E r \in QueryResponses :
            IF r.ok
            THEN /\ result' = RetList(RecentLogs(rows, limit))
                 /\ pc' = "done"
                 /\ log' = Append(log, LogEntry("select", "call_logs", r, 0))
                 /\ UNCHANGED attempt
            ELSE IF FetchShouldRetry(r.err, attempt)
            THEN /\ log' = Append(log, LogEntry("select", "call_logs", r,
                                                _RETRY_DELAYS[attempt + 1]))
                 /\ attempt' = attempt + 1
                 /\ UNCHANGED <<pc, result>>
            ELSE /\ result' = RetList(<<>>)
                 /\ pc' = "done"
                 /\ log' = Append(log, LogEntry("select", "call_logs", r, 0))
                 /\ UNCHANGED attempt
    /\ UNCHANGED <<url, key, migrated, rows, op, args, full_data, base_data,
                   clientsCreated, client, ctx, limit>>

\* A fetch_bookings that sleeps 1s and queries once more after a transient failure.
FetchBookings_RetriesOnce ==
    /\ pc = "idle"
    /\ op' = "fetch_bookings"
    /\ pc' = "done"
    /\ \E created \in BOOLEAN :
        /\ client' = (~Unconfigured(url, key) /\ created)
        /\ IF Unconfigured(url, key)
           THEN /\ created = FALSE
                /\ result' = RetList(<<>>)
                /\ UNCHANGED <<clientsCreated, log>>
           ELSE /\ clientsCreated' = clientsCreated + 1
                /\ IF ~created
                   THEN result' = RetList(<<>>) /\ UNCHANGED log
                   ELSE \E r \in QueryResponses, r2 \in QueryResponses :
                           IF ~r.ok /\ _is_retryable(r.err)
                           THEN /\ log' = <<LogEntry("select", "bookings", r, 1),
                                            LogEntry("select", "bookings", r2, 0)>>
                                /\ result' = IF r2.ok THEN RetList(BookingRows(rows))
                                                      ELSE RetList(<<>>)
                           ELSE /\ log' = Append(log, LogEntry("select", "bookings", r, 0))
                                /\ result' = IF r.ok THEN RetList(BookingRows(rows))
                                                     ELSE RetList(<<>>)
    /\ UNCHANGED <<url, key, migrated, rows, args, full_data, base_data, attempt, limit, ctx>>

\* fetch_bookings
FetchBookings ==
    /\ pc = "idle"
    /\ op' = "fetch_bookings"
    /\ pc' = "done"
    /\ \E created \in BOOLEAN :
        /\ client' = (~Unconfigured(url, key) /\ created)
        /\ IF Unconfigured(url, key)
           THEN /\ created = FALSE
                /\ result' = RetList(<<>>)
                /\ UNCHANGED <<clientsCreated, log>>
           ELSE /\ clientsCreated' = clientsCreated + 1
                /\ IF ~created
                   THEN result' = RetList(<<>>) /\ UNCHANGED log
                   ELSE \E r \in QueryResponses :
                           /\ log' = Append(log, LogEntry("select", "bookings", r, 0))
                           /\ result' = IF r.ok THEN RetList(BookingRows(rows)) ELSE RetList(<<>>)
    /\ UNCHANGED <<url, key, migrated, rows, args, full_data, base_data, attempt, limit, ctx>>

\* fetch_stats
FetchStats ==
    /\ pc = "idle"
    /\ op' = "fetch_stats"
    /\ pc' = "done"
    /\ \E created \in BOOLEAN :
        /\ client' = (~Unconfigured(url, key) /\ created)
        /\ IF Unconfigured(url, key)
           THEN /\ created = FALSE
                /\ result' = RetStats(ZeroStats)
                /\ UNCHANGED <<clientsCreated, log>>
           ELSE /\ clientsCreated' = clientsCreated + 1
                /\ IF ~created
                   THEN result' = RetStats(ZeroStats) /\ UNCHANGED log
                   ELSE \E r \in QueryResponses :
                           /\ log' = Append(log, LogEntry("select", "stats", r, 0))
                           /\ result' = IF r.ok THEN RetStats(ComputeStats(StatsRows(rows)))
                                                 ELSE RetStats(ZeroStats)
    /\ UNCHANGED <<url, key, migrated, rows, args, full_data, base_data, attempt, limit, ctx>>

\* ---------------------------------------------------- agent entrypoint
sNameError  == <<"N","a","m","e","E","r","r","o","r">>
sBusy       == <<"b","u","s","y">>
sUnreachable == <<"u","n","r","e","a","c","h","a","b","l","e">>

\* Errors the media platform raises from session.start and
\* create_sip_participant.
PlatformErrors == {sBusy, sUnreachable}

\* ctx.job.metadata by what json.loads makes of it: absent or empty, not JSON,
\* JSON that is no object, or an object with its "phone_number" (None when the
\* key is missing or null).
JobMetadata ==
    { [kind |-> "absent",  phone |-> None],
      [kind |-> "invalid", phone |-> None],
      [kind |-> "nondict", phone |-> None],
      [kind |-> "object",  phone |-> None],
      [kind |-> "object",  phone |-> Some(<<>>)],
      [kind |-> "object",  phone |-> Some(sP)] }

\* phone_number after the metadata block: json.loads or data.get raising is
\* caught and leaves None.
ParsePhoneNumber(md) == IF md.kind = "object" THEN md.phone ELSE None

NoContext ==
    [metadata |-> [kind |-> "absent", phone |-> None], phone_number |-> None,
     started |-> FALSE, sip_calls |-> 0, answered |-> FALSE, greeted |-> FALSE,
     error_logged |-> FALSE, shutdown |-> FALSE]

\* entrypoint returned (None)
RetNone == [NoResult EXCEPT !.kind = "return"]

\* What the handler `except exception as e:` does with an error e raised by
\* create_sip_participant: matching evaluates the name `exception`, which is
\* not defined in agent.py, so NameError is raised in place of the handler's
\* body (logger.error, ctx.shutdown()).
SipFailureHandler(e) ==
    [caught |-> FALSE, error_logged |-> FALSE, shutdown |-> FALSE, raised |-> sNameError]

\* entrypoint up to the branch on phone_number: the metadata, the session,
\* and the greeting of an inbound call.
Entrypoint ==
    /\ pc = "idle"
    /\ op' = "entrypoint"
    /\ \E md \in JobMetadata, start \in {RespOK} \cup {RespErr(e) : e \in PlatformErrors} :
        LET phone == ParsePhoneNumber(md)
            c == [NoContext EXCEPT !.metadata = md, !.phone_number = phone]
        IN  IF ~start.ok
            THEN /\ ctx' = c
                 /\ result' = Raised(start.err)
                 /\ pc' = "done"
            ELSE IF Truthy(phone)
            THEN /\ ctx' = [c EXCEPT !.started = TRUE]
                 /\ pc' = "dial"
                 /\ UNCHANGED result
            ELSE /\ ctx' = [c EXCEPT !.started = TRUE, !.greeted = TRUE]
                 /\ result' = RetNone
                 /\ pc' = "done"
    /\ UNCHANGED <<url, key, migrated, rows, args, full_data, base_data, attempt,
                   clientsCreated, client, limit, log>>

\* The outbound branch: create_sip_participant and its except clause.
PlaceCall ==
    /\ pc = "dial"
    /\ pc' = "done"
    /\ \E r \in {RespOK} \cup {RespErr(e) : e \in PlatformErrors} :
        IF r.ok
        THEN /\ ctx' = [ctx EXCEPT !.sip_calls = @ + 1, !.answered = TRUE]
             /\ result' = RetNone
        ELSE LET h == SipFailureHandler(r.err)
             IN  /\ ctx' = [ctx EXCEPT !.sip_calls = @ + 1,
                                       !.error_logged = h.error_logged,
                                       !.shutdown = h.shutdown]
                 /\ result' = IF h.caught THEN RetNone ELSE Raised(h.raised)
    /\ UNCHANGED <<url, key, migrated, rows, op, args, full_data, base_data, attempt,
                   clientsCreated, client, limit, log>>

\* ---------------------------------------------------------- specifications
\* A row another writer left in the table.
Row(duration, summary) ==
    [c \in AllColumns |->
        IF c = "phone_number" THEN Some(sP)
        ELSE IF c = "duration_seconds" THEN duration
        ELSE IF c = "summary" THEN summary
        ELSE IF c = "transcript" THEN Some(sT)
        ELSE None]

StoredRows ==
    { Row(Some(10), Some(sBookingConfirmed)),
      Row(Some(20), Some(sNo)),
      Row(Some(30), Some(<<>>)),
      Row(Some(0),  Some(sBookingConfirmed)),
      Row(None,     Some(sLowerConfirmed)),
      Row(Some(25), None),
      Row(Some(15), Some(sNo)) }

RECURSIVE Tables(_)
\* Tables of at most n rows.
Tables(n) ==
    IF n = 0 THEN {<<>>}
    ELSE Tables(n - 1)
            \cup {Append(t, r) : t \in {u \in Tables(n - 1) : Len(u) = n - 1}, r \in StoredRows}

InitCall ==
    /\ op = "none"
    /\ pc = "idle"
    /\ args = NoArgs
    /\ full_data = NoData
    /\ base_data = NoData
    /\ attempt = 0
    /\ clientsCreated = 0
    /\ client = FALSE
    /\ ctx = NoContext
    /\ limit = 0
    /\ log = <<>>
    /\ result = NoResult

\* Any configuration, either schema, a table that is empty or holds a booking.
Init ==
    /\ url \in {<<>>, sU}
    /\ key \in {<<>>, sU}
    /\ migrated \in BOOLEAN
    /\ rows \in {<<>>, <<Row(Some(10), Some(sBookingConfirmed))>>}
    /\ InitCall

Next ==
    \/ SaveCallLog
    \/ TryInsert
    \/ FetchCallLogs
    \/ FetchCallLogsTry
    \/ FetchBookings
    \/ FetchStats
    \/ Entrypoint
    \/ PlaceCall

Spec == Init /\ [][Next]_vars

\* The readers over every table of at most MaxRows rows, on a configured store.
ReaderInit ==
    /\ url = sU
    /\ key = sU
    /\ migrated = TRUE
    /\ rows \in Tables(MaxRows)
    /\ InitCall

ReaderNext ==
    \/ FetchBookings
    \/ FetchStats

ReaderSpec == ReaderInit /\ [][ReaderNext]_vars


\* Sequential execution: a call that is in its retry loop takes its next step.
FairSpec == Spec /\ WF_vars(TryInsert)

\* ------------------------------------------------------ what the claims use
SaveDone == op = "save_call_log" /\ pc = "done"

\* save_call_log got a client and built its payloads.
ClientReady == op = "save_call_log" /\ DOMAIN full_data # {}

PayloadOf(label) == IF label = "full" THEN full_data ELSE base_data
HasAnalytics(data) == (DOMAIN data) \cap _ANALYTICS_COLUMNS # {}

Delays == [i \in 1..Len(log) |-> log[i].delay]
TotalSlept == SumSeq(Delays)

\* The error strings by the class the interface description gives them.
SchemaMismatchErrors == {ePGRST204, eCache}
TransientErrors == {e503, eSSL}
PermanentErrors == {eDuplicate}

NumTransient == Cardinality({i \in 1..Len(log) : log[i].err \in TransientErrors})

SchemaOnlyOnAnalyticsStore ==
    \A i \in 1..Len(log) :
        IF HasAnalytics(PayloadOf(log[i].label))
        THEN ~log[i].ok /\ log[i].err \in SchemaMismatchErrors
        ELSE log[i].ok

\* C1: against a store that raises schema-mismatch on every insert carrying an
\* analytics column and accepts every other insert, save_call_log makes exactly
\* two inserts, the full payload and then the base-only payload, sleeps no
\* backoff and returns success.
C1_FallbackTakesTwoInserts ==
    (SaveDone /\ ClientReady /\ SchemaOnlyOnAnalyticsStore) =>
        /\ Len(log) = 2
        /\ log[1].label = "full"
        /\ log[2].label = "base-fallback"
        /\ ~HasAnalytics(PayloadOf(log[2].label))
        /\ TotalSlept = 0
        /\ result.kind = "dict"
        /\ result.success

C1_Witness ==
    /\ SaveDone /\ ClientReady /\ SchemaOnlyOnAnalyticsStore
    /\ Len(log) = 2
    /\ result.success

AlwaysTransientStore ==
    \A i \in 1..Len(log) : ~log[i].ok /\ log[i].err \in TransientErrors

\* C2: against a store whose every insert raises a transient error,
\* save_call_log returns success=false after exactly 3 inserts and its message
\* is "Max retries exceeded".
C2_MaxRetriesDetail ==
    (SaveDone /\ ClientReady /\ AlwaysTransientStore) =>
        /\ Len(log) = 3
        /\ result.kind = "dict"
        /\ ~result.success
        /\ result.message = sMaxRetriesExceeded

\* C3: every save_call_log call ends by returning a dict {success, ...}; no
\* exception leaves it, also when the base-only insert fails with
\* schema-mismatch.
C3_NeverRaises == SaveDone => result.kind = "dict"


\* The record went into the table and the call returned it with success=true.
Saved ==
    /\ result.kind = "dict"
    /\ result.success
    /\ log # <<>>
    /\ log[Len(log)].ok
    /\ result.data = <<PayloadOf(log[Len(log)].label)>>
    /\ rows # <<>>
    /\ rows[Len(rows)] = StoredRow(PayloadOf(log[Len(log)].label))

StaleSchemaFewTransients ==
    /\ \A i \in 1..Len(log) :
          \/ log[i].ok
          \/ log[i].err \in TransientErrors
          \/ log[i].label = "full" /\ log[i].err \in SchemaMismatchErrors
    /\ NumTransient <= 2

\* C4: when the full payload is refused only for schema-mismatch, the store
\* raises at most 2 transient errors during the call and no permanent error, and
\* it accepts the base-only payload, the call ends with success=true and the
\* record in the table.
C4_RecordNotDropped ==
    (pc = "try_full") ~> (SaveDone /\ (StaleSchemaFewTransients => Saved))

C4_Witness ==
    /\ SaveDone /\ StaleSchemaFewTransients /\ Saved
    /\ NumTransient = 2
    /\ \E i \in 1..Len(log) : log[i].label = "full" /\ log[i].err \in SchemaMismatchErrors
    /\ \E i \in 1..Len(log) : log[i].label = "base-fallback" /\ log[i].err \in TransientErrors

\* A store that answers by its schema alone: it accepts a payload all of whose
\* columns it has and raises schema-mismatch on any other.
SchemaDrivenStore ==
    \A i \in 1..Len(log) :
        IF DOMAIN PayloadOf(log[i].label) \subseteq StoreColumns(migrated)
        THEN log[i].ok
        ELSE ~log[i].ok /\ log[i].err \in SchemaMismatchErrors

\* Only base fields populated: every analytics argument at its default.
BaseOnlyRecord == args.analytics = DefaultAnalytics

\* C5 as claimed: a record with only base fields populated is saved by the
\* first insert, with no base-only fallback, whether or not the store has the
\* analytics columns.
C5_AsClaimed ==
    (SaveDone /\ ClientReady /\ BaseOnlyRecord /\ SchemaDrivenStore) =>
        /\ Len(log) = 1
        /\ log[1].label = "full"
        /\ log[1].ok
        /\ result.success

\* C5 amended: such a record is always saved; by the first insert, with no
\* fallback, when the store has the analytics columns, and by the base-only
\* fallback on the second insert when it has not (the full payload always
\* carries sentiment, was_booked and interrupt_count).
C5_BaseOnlyRecordSaved ==
    (SaveDone /\ ClientReady /\ BaseOnlyRecord /\ SchemaDrivenStore) =>
        /\ Saved
        /\ IF migrated
           THEN Len(log) = 1 /\ log[1].label = "full"
           ELSE /\ Len(log) = 2
                /\ log[1].label = "full" /\ log[1].err \in SchemaMismatchErrors
                /\ log[2].label = "base-fallback"

C5_Witness ==
    /\ SaveDone /\ ClientReady /\ BaseOnlyRecord /\ SchemaDrivenStore
    /\ migrated
    /\ Len(log) = 1
    /\ result.success

TwoTransientThenOKStore ==
    /\ Len(log) >= 1 => log[1].err \in TransientErrors
    /\ Len(log) >= 2 => log[2].err \in TransientErrors
    /\ Len(log) >= 3 => log[3].ok

\* C6: against a store whose first 2 inserts raise a transient error and whose
\* 3rd insert succeeds, save_call_log returns success after exactly 3 inserts,
\* having slept 1s after the first failure, 2s after the second and nothing
\* after the success: 3s in all.
C6_ThreeSecondsBackoff ==
    (SaveDone /\ ClientReady /\ TwoTransientThenOKStore) =>
        /\ Len(log) = 3
        /\ result.kind = "dict"
        /\ result.success
        /\ Delays = <<1, 2, 0>>
        /\ TotalSlept = 3

C6_Witness ==
    /\ SaveDone /\ ClientReady /\ TwoTransientThenOKStore
    /\ Len(log) = 3
    /\ result.success


\* C7: with the store URL or the API key absent, no client is created and no
\* store request is made; save_call_log returns success=false with a message,
\* fetch_call_logs and fetch_bookings return the empty list and fetch_stats the
\* all-zero summary.
C7_UnconfiguredNoNetwork ==
    (url = <<>> \/ key = <<>>) =>
        /\ log = <<>>
        /\ clientsCreated = 0
        /\ pc \notin {"try_full", "try_base", "fetch_logs"}
        /\ op = "save_call_log" =>
              result.kind = "dict" /\ ~result.success /\ result.message # <<>>
        /\ op \in {"fetch_call_logs", "fetch_bookings"} =>
              result.kind = "list" /\ result.data = <<>>
        /\ op = "fetch_stats" =>
              result.kind = "stats" /\ result.stats = ZeroStats

C7_Witness ==
    /\ url # <<>> /\ key = <<>>
    /\ rows # <<>>
    /\ SaveDone
    /\ ~result.success

\* The call lost the record: it returned success=false or raised.
Lost == result.kind = "raise" \/ (result.kind = "dict" /\ ~result.success)

\* Every error string of the model by the class the code gives it: "503 PGRST204"
\* is schema-mismatch, and "pgrst204" is permanent (PGRST204 is matched with
\* its case).
AllSchemaMismatch == SchemaMismatchErrors \cup {eBoth}
AllPermanent == PermanentErrors \cup {eLowerPgrst}

AttemptsOf(l) == SelectSeq(log, LAMBDA e : e.label = l)

\* C8 as claimed: a record is lost on a configured store only after a
\* base-only insert was attempted, which failed for good or hit
\* schema-mismatch again.
C8_AsClaimed ==
    (SaveDone /\ ClientReady /\ Lost) =>
        /\ AttemptsOf("base-fallback") # <<>>
        /\ log[Len(log)].label = "base-fallback"
        /\ ~log[Len(log)].ok

\* C8 amended: a record is lost on a configured store only if the client could
\* not be created, or the last insert made (of either payload) failed with a
\* permanent error or with the third transient error of its payload, or failed
\* with schema-mismatch on the base-only payload (and then the call raises).
C8_LossOnlyAfterFinalFailure ==
    (SaveDone /\ url # <<>> /\ key # <<>> /\ Lost) =>
        \/ log = <<>> /\ ~ClientReady /\ result.kind = "dict"
        \/ /\ log # <<>>
           /\ ~log[Len(log)].ok
           /\ \/ log[Len(log)].err \in AllPermanent /\ result.kind = "dict"
              \/ /\ log[Len(log)].err \in TransientErrors
                 /\ Len(AttemptsOf(log[Len(log)].label)) = _MAX_RETRIES
                 /\ result.kind = "dict"
              \/ /\ log[Len(log)].err \in AllSchemaMismatch
                 /\ log[Len(log)].label = "base-fallback"
                 /\ result.kind = "raise"

C8_Witness ==
    /\ SaveDone /\ ClientReady /\ Lost
    /\ AttemptsOf("base-fallback") = <<>>
    /\ log[Len(log)].err \in PermanentErrors

\* A retry procedure (the inserts of one payload, or fetch_call_logs' queries)
\* whose every attempt failed with a transient error.
FullyRetried(l) ==
    /\ pc = "done"
    /\ AttemptsOf(l) # <<>>
    /\ \A i \in 1..Len(AttemptsOf(l)) : AttemptsOf(l)[i].err \in TransientErrors

DelaysOf(l) == [i \in 1..Len(AttemptsOf(l)) |-> AttemptsOf(l)[i].delay]

RetryLabels == {"full", "base-fallback", "call_logs"}

\* C9 as claimed: a fully retried transient failure sleeps 1s, 2s and 4s,
\* 7 seconds in all.
C9_AsClaimed ==
    \A l \in RetryLabels :
        FullyRetried(l) => DelaysOf(l) = <<1, 2, 4>> /\ SumSeq(DelaysOf(l)) = 7

\* C9 amended: a fully retried transient failure makes 3 attempts and sleeps
\* 1s after the first and 2s after the second, 3 seconds in all; nothing is
\* slept after the third and the 4s delay is never used.
C9_BackoffIsThreeSeconds ==
    \A l \in RetryLabels :
        FullyRetried(l) =>
            /\ Len(AttemptsOf(l)) = 3
            /\ DelaysOf(l) = <<1, 2, 0>>
            /\ SumSeq(DelaysOf(l)) = 3

C9_Witness ==
    /\ SaveDone
    /\ FullyRetried("full")
    /\ Len(log) = 3

\* What C10 says fetch_stats returns for table t.
ClaimedBookings(t) ==
    {i \in 1..Len(t) : t[i]["summary"] # None /\ Contains(sConfirmed, t[i]["summary"][1])}
ClaimedDurationRows(t) ==
    {i \in 1..Len(t) : t[i]["duration_seconds"] # None /\ t[i]["duration_seconds"][1] # 0}

RECURSIVE SumDurations(_, _)
SumDurations(t, I) ==
    IF I = {} THEN 0
    ELSE LET i == CHOOSE j \in I : TRUE
         IN  t[i]["duration_seconds"][1] + SumDurations(t, I \ {i})

ClaimedStats(t) ==
    [total_calls    |-> Len(t),
     total_bookings |-> Cardinality(ClaimedBookings(t)),
     avg_duration   |-> IF ClaimedDurationRows(t) = {} THEN 0
                        ELSE PyRound(SumDurations(t, ClaimedDurationRows(t)),
                                     Cardinality(ClaimedDurationRows(t))),
     booking_rate   |-> IF Len(t) = 0 THEN 0
                        ELSE PyRound(100 * Cardinality(ClaimedBookings(t)), Len(t))]

StatsQueryOK == op = "fetch_stats" /\ pc = "done" /\ log # <<>> /\ log[1].ok

\* C10: when its query succeeds, fetch_stats returns for every table, also one
\* with null summaries or durations: total_calls the number of rows,
\* total_bookings the number of rows whose summary contains "Confirmed",
\* avg_duration the rounded mean of the nonzero durations (0 if none) and
\* booking_rate round(100 * total_bookings / total_calls) (0 for no rows).
C10_StatsAsClaimed ==
    StatsQueryOK => result.kind = "stats" /\ result.stats = ClaimedStats(rows)

\* The same on tables without a null summary, where it holds.
StatsOnNonNullSummaries ==
    (StatsQueryOK /\ \A i \in 1..Len(rows) : rows[i]["summary"] # None) =>
        result.stats = ClaimedStats(rows)

\* The two examples of the interface description.
StatsExamples ==
    /\ (StatsQueryOK /\ rows = <<>>) => result.stats = ZeroStats
    /\ (StatsQueryOK /\ rows = <<Row(Some(10), Some(sBookingConfirmed)),
                                 Row(Some(20), Some(sNo)),
                                 Row(Some(30), Some(<<>>))>>) =>
            result.stats = [total_calls |-> 3, total_bookings |-> 1,
                            avg_duration |-> 20, booking_rate |-> 33]


\* ------------------------------------------------- the writer's control flow
IsInsert(i) == log[i].kind = "insert"

\* C11: within one save_call_log call the base-only retry procedure starts at
\* most once and only right after an insert of the full payload failed with
\* schema-mismatch; a permanent failure or exhausted transient failures of the
\* full payload end the call without it, and a schema-mismatch on the
\* base-only payload is followed by no further insert.
C11_FallbackOnceAfterSchemaMismatch ==
    op = "save_call_log" =>
        /\ \A i \in 1..Len(log) :
              log[i].label = "base-fallback" =>
                  /\ i > 1
                  /\ \/ log[i - 1].label = "base-fallback"
                     \/ /\ log[i - 1].label = "full"
                        /\ ~log[i - 1].ok
                        /\ log[i - 1].err \in AllSchemaMismatch
        /\ \A i \in 1..Len(log) :
              (log[i].label = "full" /\ i > 1) => log[i - 1].label = "full"
        /\ Len(AttemptsOf("base-fallback")) <= _MAX_RETRIES
        /\ \A i \in 1..Len(log) :
              (/\ log[i].label = "full"
               /\ \/ log[i].err \in AllPermanent
                  \/ log[i].err \in TransientErrors /\ i = _MAX_RETRIES) =>
                  i = Len(log) /\ pc = "done"
        /\ \A i \in 1..Len(log) :
              (log[i].label = "base-fallback" /\ log[i].err \in AllSchemaMismatch) =>
                  i = Len(log) /\ pc = "done"
        /\ pc = "try_base" =>
              \E i \in 1..Len(log) : log[i].label = "full" /\ log[i].err \in AllSchemaMismatch

C11_Witness ==
    /\ SaveDone
    /\ Len(AttemptsOf("full")) = 2
    /\ Len(AttemptsOf("base-fallback")) = 3
    /\ log[Len(log)].err \in AllSchemaMismatch

\* C12: an insert failure classified as schema-mismatch ends the retry loop of
\* its payload at once, at any attempt index: no backoff is slept after it and
\* the same payload is not inserted again; an error string with both a
\* schema-mismatch marker and a transient marker ("503 PGRST204") is treated so
\* too, never retried as transient.
C12_SchemaMismatchAbortsLoop ==
    \A i \in 1..Len(log) :
        (IsInsert(i) /\ log[i].err \in AllSchemaMismatch) =>
            /\ log[i].delay = 0
            /\ i < Len(log) => log[i + 1].label # log[i].label
            /\ i = Len(log) =>
                  \/ pc = "try_base" /\ attempt = 0 /\ log[i].label = "full"
                  \/ pc = "done" /\ log[i].label = "base-fallback"

C12_Witness ==
    /\ Len(log) = 4
    /\ log[1].err \in TransientErrors
    /\ log[2].err \in TransientErrors
    /\ log[3].err = eBoth
    /\ log[3].label = "full"
    /\ log[4].label = "base-fallback"

\* C13: an insert failure classified as permanent (neither schema-mismatch nor
\* transient) ends the save_call_log call at once: it is the last insert, no
\* backoff is slept after it, and the call returns success=false with that
\* error's string as its message.
C13_PermanentFailureEndsCall ==
    \A i \in 1..Len(log) :
        (IsInsert(i) /\ log[i].err \in AllPermanent) =>
            /\ i = Len(log)
            /\ log[i].delay = 0
            /\ pc = "done"
            /\ result.kind = "dict"
            /\ ~result.success
            /\ result.message = log[i].err

C13_Witness ==
    /\ SaveDone
    /\ Len(log) = 2
    /\ log[1].err \in TransientErrors
    /\ log[2].err \in AllPermanent
    /\ log[2].label = "full"

\* C14: the base-only payload has no analytics field and is exactly the
\* base-field entries of the full payload, values unchanged; recording_url and
\* caller_name are in neither payload when empty (and in both otherwise), and
\* phone_number, duration_seconds, transcript and summary are in both.
C14_BasePayloadIsBasePartOfFull ==
    ClientReady =>
        /\ (DOMAIN base_data) \cap _ANALYTICS_COLUMNS = {}
        /\ DOMAIN base_data = (DOMAIN full_data) \cap _BASE_COLUMNS
        /\ \A c \in DOMAIN base_data : base_data[c] = full_data[c]
        /\ {"phone_number", "duration_seconds", "transcript", "summary"}
              \subseteq DOMAIN base_data
        /\ full_data["phone_number"] = args.phone
        /\ full_data["duration_seconds"] = args.duration
        /\ full_data["transcript"] = args.transcript
        /\ full_data["summary"] = args.summary
        /\ "recording_url" \in DOMAIN full_data <=> args.recording_url # <<>>
        /\ "recording_url" \in DOMAIN base_data <=> args.recording_url # <<>>
        /\ "caller_name" \in DOMAIN full_data <=> args.caller_name # <<>>
        /\ "caller_name" \in DOMAIN base_data <=> args.caller_name # <<>>

C14_Witness ==
    /\ ClientReady
    /\ pc = "try_base"
    /\ args.recording_url = <<>>
    /\ args.caller_name # <<>>
    /\ args.analytics # DefaultAnalytics

\* Errors that carry a transient marker, whatever else they carry.
MarkedTransient == TransientErrors \cup {eBoth}

CallLogsDone == op = "fetch_call_logs" /\ pc = "done"

\* C15: fetch_call_logs makes at most 3 queries, all of them the call_logs
\* select (no reduced-column query, also after a schema-mismatch error); a
\* query is followed by another one only if it failed with a transient error,
\* after sleeping 1s (first) or 2s (second); the call stops at the first
\* success and returns the rows, and returns [] after a non-transient failure
\* or the third transient failure; it never raises.
C15_FetchCallLogsRetries ==
    op = "fetch_call_logs" =>
        /\ Len(log) <= 3
        /\ \A i \in 1..Len(log) :
              /\ log[i].kind = "select" /\ log[i].label = "call_logs"
              /\ i < Len(log) =>
                    /\ ~log[i].ok
                    /\ log[i].err \in MarkedTransient
                    /\ log[i].delay = IF i = 1 THEN 1 ELSE 2
              /\ (~log[i].ok /\ log[i].err \notin MarkedTransient) =>
                    i = Len(log) /\ pc = "done"
              /\ log[i].ok => i = Len(log) /\ pc = "done"
        /\ (Len(log) = 3 \/ (log # <<>> /\ pc = "done")) => log[Len(log)].delay = 0
        /\ result.kind \in {"none", "list"}
        /\ pc = "done" =>
              /\ result.kind = "list"
              /\ result.data = IF log # <<>> /\ log[Len(log)].ok
                               THEN RecentLogs(rows, limit) ELSE <<>>
        /\ (pc = "fetch_logs" /\ log # <<>>) =>
              (Len(log) < 3 /\ log[Len(log)].err \in MarkedTransient)

\* Three transient failures over a non-empty table: 1s and 2s slept, [] returned.
C15_Witness ==
    /\ CallLogsDone
    /\ Len(log) = 3
    /\ \A i \in 1..3 : ~log[i].ok /\ log[i].err \in MarkedTransient
    /\ \E i \in 1..3 : log[i].err = eBoth
    /\ rows # <<>>
    /\ result.data = <<>>

SingleQueryDone == op \in {"fetch_bookings", "fetch_stats"} /\ pc = "done"

\* C16: on a configured store with a client, fetch_bookings and fetch_stats
\* each issue exactly one query, with no sleep after it; whatever error that
\* query fails with, nothing is retried, fetch_bookings returns [] and
\* fetch_stats the all-zero summary, and neither raises.
C16_SingleQueryNoRetry ==
    SingleQueryDone =>
        /\ result.kind = (IF op = "fetch_bookings" THEN "list" ELSE "stats")
        /\ client =>
              /\ Len(log) = 1
              /\ log[1].kind = "select"
              /\ log[1].label = (IF op = "fetch_bookings" THEN "bookings" ELSE "stats")
              /\ log[1].delay = 0
              /\ ~log[1].ok => (result.data = <<>> /\ result.stats = ZeroStats)
        /\ ~client => log = <<>>

\* A transient failure of the one query of fetch_bookings over a table that
\* holds a booking.
C16_Witness ==
    /\ SingleQueryDone
    /\ op = "fetch_bookings"
    /\ client
    /\ Len(log) = 1
    /\ ~log[1].ok
    /\ log[1].err \in TransientErrors
    /\ BookingRows(rows) # <<>>
    /\ result.data = <<>>

EntrypointDone == op = "entrypoint" /\ pc = "done"

\* create_sip_participant was called and raised.
SipCallFailed == EntrypointDone /\ ctx.sip_calls = 1 /\ ~ctx.answered

\* C17: when the metadata carries a phone number and create_sip_participant
\* raises, the entrypoint catches the failure, logs an error, calls
\* ctx.shutdown() and returns instead of raising; the greeting is issued only
\* when no phone number is present.
C17_SipFailureHandled ==
    /\ SipCallFailed =>
          /\ Truthy(ctx.phone_number)
          /\ result.kind = "return"
          /\ ctx.error_logged
          /\ ctx.shutdown
    /\ (op = "entrypoint" /\ ctx.greeted) => ~Truthy(ctx.phone_number)

\* Positions of the inserts of the call that the store accepted.
SucceededInserts == {i \in 1..Len(log) : IsInsert(i) /\ log[i].ok}

C18_OneWrite ==
    op = "save_call_log" =>
        /\ Cardinality(SucceededInserts) <= 1
        /\ \A i \in SucceededInserts : i = Len(log) /\ pc = "done"
        /\ pc = "done" =>
              ((result.kind = "dict" /\ result.success)
                  <=> Cardinality(SucceededInserts) = 1)

\* A step of the call writes at most one row, and only as the step that ends it.
C18_WriteStep ==
    /\ Len(rows') <= Len(rows) + 1
    /\ rows' # rows =>
          /\ pc \in {"try_full", "try_base"} /\ pc' = "done"
          /\ Len(rows') = Len(rows) + 1
          /\ SubSeq(rows', 1, Len(rows)) = rows

\* C18: in every save_call_log call at most one insert succeeds, no insert is
\* invoked after a successful one, and the call returns success=true iff
\* exactly one insert succeeded; the call adds at most one row to the table.
C18_AtMostOneInsertSucceeds == [](C18_OneWrite) /\ [][C18_WriteStep]_vars

\* A record saved by the base payload after the full payload's schema mismatch
\* and one transient failure of the base payload: three inserts, one success.
C18_Witness ==
    /\ SaveDone
    /\ Len(log) = 3
    /\ log[1].label = "full" /\ ~log[1].ok
    /\ log[2].label = "base-fallback" /\ ~log[2].ok
    /\ log[3].label = "base-fallback" /\ log[3].ok
    /\ result.success
    /\ Len(rows) >= 1

SaveRunning == op = "save_call_log" /\ pc \in {"try_full", "try_base"}

C19_Bounds ==
    op = "save_call_log" =>
        /\ Len(log) <= 6
        /\ Len(AttemptsOf("full")) <= 3
        /\ Len(AttemptsOf("base-fallback")) <= 3
        /\ attempt <= 2
        /\ \A l \in {"full", "base-fallback"} :
              /\ SumSeq(DelaysOf(l)) <= 3
              /\ \A i \in 1..Len(DelaysOf(l)) :
                    DelaysOf(l)[i] \in {0, IF i = 1 THEN 1 ELSE 2}
        /\ AttemptsOf("base-fallback") # <<>> =>
              (AttemptsOf("base-fallback")[1].delay # 0 =>
                  AttemptsOf("base-fallback")[1].delay = 1)
        /\ TotalSlept <= 6

\* C19: every save_call_log call ends, whatever the store answers, after at
\* most 6 inserts (at most 3 per payload, the base payload's attempts counted
\* from zero again) and at most 6 seconds of sleep (at most 1s+2s per payload).
C19_SaveTerminatesWithinBounds == [](C19_Bounds) /\ (SaveRunning ~> SaveDone)

\* The longest call: three inserts of each payload, 1s+2s slept for each.
C19_Witness ==
    /\ SaveDone
    /\ Len(AttemptsOf("full")) = 3
    /\ Len(AttemptsOf("base-fallback")) = 3
    /\ SumSeq(DelaysOf("full")) = 3
    /\ SumSeq(DelaysOf("base-fallback")) = 3
    /\ TotalSlept = 6

NoNullSummary == \A i \in 1..Len(rows) : rows[i]["summary"] # None

BookingsQueryOK == op = "fetch_bookings" /\ pc = "done" /\ log # <<>> /\ log[1].ok

\* C20: over the same table (no more than 200 bookings, no NULL summary) and
\* with both queries succeeding, fetch_bookings returns as many records as
\* fetch_stats reports in total_bookings, whatever the letter case of
\* "confirmed" in the summaries.
C20_SameBookingsInBothReaders ==
    (NoNullSummary /\ Len(BookingRows(rows)) <= BookingsLimit) =>
        /\ BookingsQueryOK =>
              Len(result.data) = ComputeStats(StatsRows(rows)).total_bookings
        /\ StatsQueryOK =>
              result.stats.total_bookings = Len(BookingRows(rows))

====
